---- MODULE Spec2Model ----
(***************************************************************************)
(* Incremental Merkle tree (src/lib.rs): the frontier `MerkleTree`, its    *)
(* `insert`, `root`, `branch_root`, the zero-hash table and the storage    *)
(* wrapper `Contract`.                                                     *)
(*                                                                         *)
(* Two levels of hashes are modelled.                                      *)
(*  - Term level: a hash is ZERO (32 zero bytes), a leaf atom <<k>>, or    *)
(*    the pair <<a, b>> standing for keccak256(a ++ b); keccak256 is then  *)
(*    collision free by construction.  The tree depth is scaled down to    *)
(*    TREE_DEPTH and the counter to TREE_DEPTH bits, as in the source      *)
(*    (depth 32, u32 counter, MAX_LEAVES = 2^32 - 1 = u32::MAX).           *)
(*  - Byte level: a hash is a sequence of 32 bytes and keccak256 is        *)
(*    Keccak-256 itself, computed round by round on the 1600-bit state,    *)
(*    at the real depth 32 with the literal table of zero_hashes.          *)
(***************************************************************************)
EXTENDS Integers, Sequences, FiniteSets

VARIABLES
  storage,   \* instance storage under key TREE: <<>> (absent) or <<tree>>
  leaves,    \* history: the nodes of the Contract.insert calls that succeeded
  op,        \* the last external call: "none", "insert", "get_root", ...
  err,       \* its outcome: "ok", an Error code, or a panic
  mem,       \* the local `tree` of the last call when the call ended
  arg,       \* the last call's hash / index / table arguments
  ret,       \* what the last call returned: <<>> or <<value>>
  calls,     \* history: MerkleTree::root calls on `mem` since the last insert
  kjob,      \* byte level: "idle", "zero_hash" or "root"
  ki,        \* byte level: the table index, or the level of root_with_ctx
  kpc,       \* byte level: where keccak256 is: "start", "permute", "done"
  kround,    \* byte level: rounds of Keccak-f done
  kA,        \* byte level: the 1600-bit Keccak state
  kcur,      \* byte level: _current of root_with_ctx / the last hash
  kroot      \* byte level: <<>> or <<what root_with_ctx returned>>

vars == <<storage, leaves, op, err, mem, arg, ret, calls>>
kvars == <<kjob, ki, kpc, kround, kA, kcur, kroot>>
allvars == <<vars, kvars>>

\* The byte level at rest.
KIdle ==
  /\ kjob = "idle" /\ ki = 0 /\ kpc = "done" /\ kround = 0
  /\ kA = <<>> /\ kcur = <<>> /\ kroot = <<>>

----------------------------------------------------------------------------
\* Scaled depth of the tree (TREE_DEPTH = 32 in the source).
TREE_DEPTH == 3

\* Width of `count` in bits: u32 in the source, i.e. as many bits as levels.
COUNT_BITS == TREE_DEPTH

MAX_LEAVES == 2^TREE_DEPTH - 1

\* BytesN::from_array(&env, &[0; 32])
ZERO == <<0>>

\* The leaves callers insert: the zero hash and a non-zero 32-byte value.
Leaves == {ZERO, <<1>>}

\* Error codes and the panics of the code.
MerkleTreeFull == "MerkleTreeFull"
MerkleTreeInvalidVecSize == "MerkleTreeInvalidVecSize"
PanicExpect == "panic: Error to get leaf"
PanicAssert == "panic: assert!(false)"
PanicVecIndex == "panic: Vec index out of bounds"
Ok == "ok"

\* keccak256(vec![a, b]): the hash of the 64-byte concatenation, as a term.
keccak256(a, b) == <<a, b>>

\* MerkleTree { branch, count }
MerkleTree(b, c) == [branch |-> b, count |-> c]

\* (n >> i) & 0x01
RECURSIVE Bit(_, _)
Bit(n, i) == IF i = 0 THEN n % 2 ELSE Bit(n \div 2, i - 1)

\* Vec::get(i): <<>> for None, <<x>> for Some(x) (i counts from 0).
VecGet(v, i) == IF i < Len(v) THEN <<v[i + 1]>> ELSE <<>>

\* Vec::set written as an insertion: the slots from i on move up by one.
VecSet_shifting(v, i, x) == SubSeq(v, 1, i) \o <<x>> \o SubSeq(v, i + 1, Len(v))

\* Vec::set(i, x) for i < len.
VecSet(v, i, x) == [v EXCEPT ![i + 1] = x]

\* Vec::insert(i, x) for i <= len.
VecInsert(v, i, x) == SubSeq(v, 1, i) \o <<x>> \o SubSeq(v, i + 1, Len(v))

----------------------------------------------------------------------------
\* zero_hashes: Z[0] = ZERO, Z[i] = keccak256(Z[i-1], Z[i-1]).  The source
\* holds the table as literal bytes; C7_ZeroTableConsistent checks with
\* Keccak-256 that the literals are this chain.
RECURSIVE zero_hash(_)
zero_hash(i) == IF i = 0 THEN ZERO ELSE keccak256(zero_hash(i - 1), zero_hash(i - 1))

zero_hashes == [i \in 1..TREE_DEPTH |-> zero_hash(i - 1)]

\* insert_loop with the operands of the hash in the other order.
RECURSIVE insert_loop_swapped(_, _, _, _)
insert_loop_swapped(self, _node, size, i) ==
  IF i >= TREE_DEPTH THEN [err |-> PanicAssert, tree |-> self]
  ELSE IF size % 2 = 1 THEN
    IF VecGet(self.branch, i) = <<>> THEN
      IF i > Len(self.branch) THEN [err |-> PanicVecIndex, tree |-> self]
      ELSE [err |-> Ok, tree |-> [self EXCEPT !.branch = VecInsert(self.branch, i, _node)]]
    ELSE [err |-> Ok, tree |-> [self EXCEPT !.branch = VecSet(self.branch, i, _node)]]
  ELSE IF VecGet(self.branch, i) = <<>> THEN [err |-> PanicExpect, tree |-> self]
  ELSE insert_loop_swapped(self, keccak256(_node, self.branch[i + 1]), size \div 2, i + 1)

\* insert_loop passing the node up a level without combining it with branch[i].
RECURSIVE insert_loop_no_carry(_, _, _, _)
insert_loop_no_carry(self, _node, size, i) ==
  IF i >= TREE_DEPTH THEN [err |-> PanicAssert, tree |-> self]
  ELSE IF size % 2 = 1 THEN
    IF VecGet(self.branch, i) = <<>> THEN
      IF i > Len(self.branch) THEN [err |-> PanicVecIndex, tree |-> self]
      ELSE [err |-> Ok, tree |-> [self EXCEPT !.branch = VecInsert(self.branch, i, _node)]]
    ELSE [err |-> Ok, tree |-> [self EXCEPT !.branch = VecSet(self.branch, i, _node)]]
  ELSE IF VecGet(self.branch, i) = <<>> THEN [err |-> PanicExpect, tree |-> self]
  ELSE insert_loop_no_carry(self, _node, size \div 2, i + 1)

\* insert_loop clearing each slot it has combined into the carry.
RECURSIVE insert_loop_clobber(_, _, _, _)
insert_loop_clobber(self, _node, size, i) ==
  IF i >= TREE_DEPTH THEN [err |-> PanicAssert, tree |-> self]
  ELSE IF size % 2 = 1 THEN
    IF VecGet(self.branch, i) = <<>> THEN
      IF i > Len(self.branch) THEN [err |-> PanicVecIndex, tree |-> self]
      ELSE [err |-> Ok, tree |-> [self EXCEPT !.branch = VecInsert(self.branch, i, _node)]]
    ELSE [err |-> Ok, tree |-> [self EXCEPT !.branch = VecSet(self.branch, i, _node)]]
  ELSE IF VecGet(self.branch, i) = <<>> THEN [err |-> PanicExpect, tree |-> self]
  ELSE insert_loop_clobber([self EXCEPT !.branch = [self.branch EXCEPT ![i + 1] = ZERO]],
                           keccak256(self.branch[i + 1], _node), size \div 2, i + 1)

\* The loop of insert from level i on: `self` already holds the new count.
RECURSIVE insert_loop(_, _, _, _)
insert_loop(self, _node, size, i) ==
  IF i >= TREE_DEPTH THEN [err |-> PanicAssert, tree |-> self]
  ELSE IF size % 2 = 1 THEN
    IF VecGet(self.branch, i) = <<>> THEN
      IF i > Len(self.branch) THEN [err |-> PanicVecIndex, tree |-> self]
      ELSE [err |-> Ok, tree |-> [self EXCEPT !.branch = VecInsert(self.branch, i, _node)]]
    ELSE [err |-> Ok, tree |-> [self EXCEPT !.branch = VecSet(self.branch, i, _node)]]
  ELSE IF VecGet(self.branch, i) = <<>> THEN [err |-> PanicExpect, tree |-> self]
  ELSE insert_loop(self, keccak256(self.branch[i + 1], _node), size \div 2, i + 1)

\* insert running the loop on the count before the increment.
insert_size_old(self, _node) ==
  IF ~(self.count < MAX_LEAVES) THEN [err |-> MerkleTreeFull, tree |-> self]
  ELSE IF ~(Len(self.branch) <= TREE_DEPTH) THEN [err |-> MerkleTreeInvalidVecSize, tree |-> self]
  ELSE LET count1 == (self.count + 1) % 2^COUNT_BITS
       IN insert_loop([self EXCEPT !.count = count1], _node, self.count, 0)

\* insert without the capacity check.
insert_no_full_check(self, _node) ==
  IF ~(Len(self.branch) <= TREE_DEPTH) THEN [err |-> MerkleTreeInvalidVecSize, tree |-> self]
  ELSE LET count1 == (self.count + 1) % 2^COUNT_BITS
       IN insert_loop([self EXCEPT !.count = count1], _node, count1, 0)

\* insert with the capacity check written count <= MAX_LEAVES.
insert_full_off_by_one(self, _node) ==
  IF ~(self.count <= MAX_LEAVES) THEN [err |-> MerkleTreeFull, tree |-> self]
  ELSE IF ~(Len(self.branch) <= TREE_DEPTH) THEN [err |-> MerkleTreeInvalidVecSize, tree |-> self]
  ELSE LET count1 == (self.count + 1) % 2^COUNT_BITS
       IN insert_loop([self EXCEPT !.count = count1], _node, count1, 0)

\* insert with the capacity check written count + 1 < MAX_LEAVES.
insert_capacity_short(self, _node) ==
  IF ~(self.count + 1 < MAX_LEAVES) THEN [err |-> MerkleTreeFull, tree |-> self]
  ELSE IF ~(Len(self.branch) <= TREE_DEPTH) THEN [err |-> MerkleTreeInvalidVecSize, tree |-> self]
  ELSE LET count1 == (self.count + 1) % 2^COUNT_BITS
       IN insert_loop([self EXCEPT !.count = count1], _node, count1, 0)

\* insert without the check of the length of branch.
insert_no_len_check(self, _node) ==
  IF ~(self.count < MAX_LEAVES) THEN [err |-> MerkleTreeFull, tree |-> self]
  ELSE LET count1 == (self.count + 1) % 2^COUNT_BITS
       IN insert_loop([self EXCEPT !.count = count1], _node, count1, 0)

\* MerkleTree::insert: the outcome and `self` after the call.
insert(self, _node) ==
  IF ~(self.count < MAX_LEAVES) THEN [err |-> MerkleTreeFull, tree |-> self]
  ELSE IF ~(Len(self.branch) <= TREE_DEPTH) THEN [err |-> MerkleTreeInvalidVecSize, tree |-> self]
  ELSE LET count1 == (self.count + 1) % 2^COUNT_BITS
       IN insert_loop([self EXCEPT !.count = count1], _node, count1, 0)

\* root_loop combining the slot of branch, not the zero hash, at a clear bit.
RECURSIVE root_loop_reads_slot(_, _, _, _)
root_loop_reads_slot(self, _zeroes, _current, i) ==
  IF i >= TREE_DEPTH THEN _current
  ELSE LET got == VecGet(self.branch, i)
           _next == IF got = <<>> THEN ZERO ELSE got[1]
       IN IF Bit(self.count, i) = 1
          THEN root_loop_reads_slot(self, _zeroes, keccak256(_next, _current), i + 1)
          ELSE root_loop_reads_slot(self, _zeroes, keccak256(_current, _next), i + 1)

\* The loop of root_with_ctx from level i on.
RECURSIVE root_loop(_, _, _, _)
root_loop(self, _zeroes, _current, i) ==
  IF i >= TREE_DEPTH THEN _current
  ELSE LET got == VecGet(self.branch, i)
           _next == IF got = <<>> THEN ZERO ELSE got[1]
       IN IF Bit(self.count, i) = 1
          THEN root_loop(self, _zeroes, keccak256(_next, _current), i + 1)
          ELSE root_loop(self, _zeroes, keccak256(_current, _zeroes[i + 1]), i + 1)

\* The value root_with_ctx starts from.
root_start == ZERO

\* MerkleTree::root_with_ctx
root_with_ctx(self, _zeroes) ==
  IF ~(Len(self.branch) <= TREE_DEPTH /\ Len(_zeroes) = TREE_DEPTH)
  THEN [err |-> MerkleTreeInvalidVecSize, value |-> <<>>]
  ELSE [err |-> Ok, value |-> <<root_loop(self, _zeroes, root_start, 0)>>]

\* root_with_ctx walking the bits of count by halving the field count itself
\* at each level (as insert halves its local `size`), not a copy of it.
root_receiver_halved(self) == [self EXCEPT !.count = self.count \div 2^TREE_DEPTH]

\* The receiver when root_with_ctx has returned: it is borrowed as &self,
\* count is copied to the local _index and no field is assigned.
root_receiver(self) == self

\* MerkleTree::root
root(self) == root_with_ctx(self, zero_hashes)

\* branch_root_loop reading the direction bit the other way round.
RECURSIVE branch_root_loop_flipped(_, _, _, _)
branch_root_loop_flipped(_current, _branch, _index, i) ==
  IF i >= TREE_DEPTH THEN _current
  ELSE LET got == VecGet(_branch, i)
           _next == IF got = <<>> THEN ZERO ELSE got[1]
       IN IF Bit(_index, i) = 0
          THEN branch_root_loop_flipped(keccak256(_next, _current), _branch, _index, i + 1)
          ELSE branch_root_loop_flipped(keccak256(_current, _next), _branch, _index, i + 1)

\* branch_root_loop taking the current hash for a missing proof entry.
RECURSIVE branch_root_loop_pad_current(_, _, _, _)
branch_root_loop_pad_current(_current, _branch, _index, i) ==
  IF i >= TREE_DEPTH THEN _current
  ELSE LET got == VecGet(_branch, i)
           _next == IF got = <<>> THEN _current ELSE got[1]
       IN IF Bit(_index, i) = 1
          THEN branch_root_loop_pad_current(keccak256(_next, _current), _branch, _index, i + 1)
          ELSE branch_root_loop_pad_current(keccak256(_current, _next), _branch, _index, i + 1)

\* branch_root_loop taking the hash of the empty subtree of level i for a
\* missing proof entry.
RECURSIVE branch_root_loop_pad_zero_hash(_, _, _, _)
branch_root_loop_pad_zero_hash(_current, _branch, _index, i) ==
  IF i >= TREE_DEPTH THEN _current
  ELSE LET got == VecGet(_branch, i)
           _next == IF got = <<>> THEN zero_hash(i) ELSE got[1]
       IN IF Bit(_index, i) = 1
          THEN branch_root_loop_pad_zero_hash(keccak256(_next, _current), _branch, _index, i + 1)
          ELSE branch_root_loop_pad_zero_hash(keccak256(_current, _next), _branch, _index, i + 1)

\* MerkleTree::branch_root, from level i on.
RECURSIVE branch_root_loop(_, _, _, _)
branch_root_loop(_current, _branch, _index, i) ==
  IF i >= TREE_DEPTH THEN _current
  ELSE LET got == VecGet(_branch, i)
           _next == IF got = <<>> THEN ZERO ELSE got[1]
       IN IF Bit(_index, i) = 1
          THEN branch_root_loop(keccak256(_next, _current), _branch, _index, i + 1)
          ELSE branch_root_loop(keccak256(_current, _next), _branch, _index, i + 1)

branch_root(_item, _branch, _index) == branch_root_loop(_item, _branch, _index, 0)

\* The tree of a freshly constructed frontier.
EmptyTree == MerkleTree(<<>>, 0)

\* Contract::get_tree: storage.get(&TREE).unwrap_or(empty tree)
Contract_get_tree(st) == IF st = <<>> THEN EmptyTree ELSE st[1]

\* Contract::insert storing the tree as it was loaded.
Contract_insert_store_stale(st, res) == IF res.err = Ok THEN <<Contract_get_tree(st)>> ELSE st

\* Contract::insert storing the local tree whatever tree.insert did.
Contract_insert_store_always(st, res) == <<res.tree>>

\* Contract::insert: what the call leaves in storage, given what was there and
\* the outcome of tree.insert (a failed call traps before storage.set).
Contract_insert_store(st, res) == IF res.err = Ok THEN <<res.tree>> ELSE st

\* Contract::get_root never calls storage.set.
Contract_get_root_store(st) == st

----------------------------------------------------------------------------
\* The reference tree: the full binary tree of depth TREE_DEPTH whose first
\* Len(ls) leaves are ls and whose other leaves are ZERO.

RefLeaf(ls, p) == IF p < Len(ls) THEN ls[p + 1] ELSE ZERO

\* The node at height h (0 = leaves) and position p (from the left, from 0).
RECURSIVE RefNode(_, _, _)
RefNode(ls, h, p) ==
  IF h = 0 THEN RefLeaf(ls, p)
  ELSE keccak256(RefNode(ls, h - 1, 2 * p), RefNode(ls, h - 1, 2 * p + 1))

RefRoot(ls) == RefNode(ls, TREE_DEPTH, 0)

\* The sibling of position q at its height.
Sibling(q) == IF q % 2 = 0 THEN q + 1 ELSE q - 1

\* The full-length sibling path of leaf position p.
RefPath(ls, p) == [h \in 1..TREE_DEPTH |-> RefNode(ls, h - 1, Sibling(p \div 2^(h - 1)))]

----------------------------------------------------------------------------
\* External calls.

ContractInsert(node) ==
  LET res == insert(Contract_get_tree(storage), node) IN
  /\ storage' = Contract_insert_store(storage, res)
  /\ leaves' = IF res.err = Ok THEN Append(leaves, node) ELSE leaves
  /\ op' = "insert"
  /\ err' = res.err
  /\ mem' = <<res.tree>>
  /\ calls' = 0
  /\ arg' = <<node>>
  /\ ret' = IF res.err = Ok THEN <<res.tree>> ELSE <<>>
  /\ UNCHANGED kvars

ContractGetRoot ==
  LET tree == Contract_get_tree(storage)
      res == root(tree) IN
  /\ storage' = Contract_get_root_store(storage)
  /\ op' = "get_root"
  /\ err' = res.err
  /\ mem' = <<root_receiver(tree)>>
  /\ arg' = <<>>
  /\ ret' = res.value
  /\ UNCHANGED <<leaves, calls, kvars>>

\* MerkleTree::branch_root called by a verifier with leaf l_i, the sibling path
\* of position i in the tree of all leaves inserted so far, and i.  (The call
\* record keeps the item only: one state per item, not one per position.)
BranchRoot(i) ==
  /\ op' = "branch_root"
  /\ err' = Ok
  /\ mem' = <<>>
  /\ arg' = <<leaves[i + 1]>>
  /\ ret' = <<branch_root(leaves[i + 1], RefPath(leaves, i), i)>>
  /\ UNCHANGED <<storage, leaves, calls, kvars>>

\* MerkleTree::root_with_ctx called on the persisted tree with a given table.
RootWithCtx(_zeroes) ==
  LET tree == Contract_get_tree(storage)
      res == root_with_ctx(tree, _zeroes) IN
  /\ op' = "root_with_ctx"
  /\ err' = res.err
  /\ mem' = <<root_receiver(tree)>>
  /\ arg' = <<_zeroes>>
  /\ ret' = res.value
  /\ UNCHANGED <<storage, leaves, calls, kvars>>

Init ==
  /\ KIdle
  /\ storage = <<>>
  /\ leaves = <<>>
  /\ op = "none"
  /\ err = Ok
  /\ mem = <<>>
  /\ calls = 0
  /\ arg = <<>>
  /\ ret = <<>>

Next ==
  \/ \E node \in Leaves : ContractInsert(node)
  \/ ContractGetRoot
  \/ \E i \in 0..(Len(leaves) - 1) : BranchRoot(i)

\* Every behaviour of the contract from absent storage.
Spec == Init /\ [][Next]_allvars

\* The contract driven by insert calls alone: the frontiers reachable from the
\* empty one by inserts.
NextInserts == \E node \in Leaves : ContractInsert(node)

SpecInserts == Init /\ [][NextInserts]_allvars

\* At most this many root() calls are followed after each insert.
MaxRootCalls == 2

\* MerkleTree::root called on the tree value the last call left in memory
\* (the one Contract.insert returned, or the one get_root loaded).
MerkleTreeRoot ==
  /\ mem # <<>>
  /\ calls < MaxRootCalls
  /\ LET self == mem[1]
         res == root(self) IN
     /\ op' = "root"
     /\ err' = res.err
     /\ mem' = <<root_receiver(self)>>
     /\ arg' = <<>>
     /\ ret' = res.value
  /\ calls' = calls + 1
  /\ UNCHANGED <<storage, leaves, kvars>>

\* Inserts and reads of the root, through the contract and on the tree value.
NextReads ==
  \/ \E node \in Leaves : ContractInsert(node)
  \/ ContractGetRoot
  \/ MerkleTreeRoot

SpecReads == Init /\ [][NextReads]_allvars

----------------------------------------------------------------------------
\* Calls on an arbitrary persisted MerkleTree value (any branch of up to
\* TREE_DEPTH + 1 entries, any count of COUNT_BITS bits), corrupted ones
\* included.

\* At most this many successful inserts are followed from each such value.
MaxAnyInserts == 2

RECURSIVE SeqsUpTo(_, _)
SeqsUpTo(S, n) ==
  IF n = 0 THEN {<<>>}
  ELSE LET shorter == SeqsUpTo(S, n - 1)
       IN shorter \cup {Append(q, x) : q \in {r \in shorter : Len(r) = n - 1}, x \in S}

AnyTrees == {MerkleTree(b, c) : b \in SeqsUpTo(Leaves, TREE_DEPTH + 1),
                                c \in 0..(2^COUNT_BITS - 1)}

\* Tables handed to root_with_ctx: one entry short, exact, one entry long.
ZeroTables == {SubSeq(zero_hashes, 1, TREE_DEPTH - 1), zero_hashes,
               Append(zero_hashes, zero_hash(TREE_DEPTH))}

InitAny ==
  /\ KIdle
  /\ storage \in {<<>>} \cup {<<t>> : t \in AnyTrees}
  /\ leaves = <<>>
  /\ op = "none"
  /\ err = Ok
  /\ mem = <<>>
  /\ calls = 0
  /\ arg = <<>>
  /\ ret = <<>>

NextAny ==
  \/ \E node \in Leaves : Len(leaves) < MaxAnyInserts /\ ContractInsert(node)
  \/ ContractGetRoot
  \/ \E z \in ZeroTables : RootWithCtx(z)

SpecAny == InitAny /\ [][NextAny]_allvars

----------------------------------------------------------------------------
\* The pure functions branch_root and root called on arbitrary arguments.

\* Proofs of up to TREE_DEPTH entries and indices of one bit more than the
\* tree has levels.
Proofs == SeqsUpTo(Leaves, TREE_DEPTH)
Indices == 0..(2^(TREE_DEPTH + 1) - 1)

\* The arguments of one call: (_item, _branch, _index) for branch_root, the
\* tree for root.
InitPure ==
  /\ KIdle
  /\ storage = <<>>
  /\ leaves = <<>>
  /\ op = "none"
  /\ err = Ok
  /\ mem = <<>>
  /\ calls = 0
  /\ arg \in {<<_item, _branch, _index>> :
                _item \in Leaves, _branch \in Proofs, _index \in Indices}
             \cup {<<self>> : self \in AnyTrees}
  /\ ret = <<>>

\* MerkleTree::branch_root(_item, _branch, _index)
BranchRootAny ==
  /\ op = "none" /\ Len(arg) = 3
  /\ op' = "branch_root"
  /\ err' = Ok
  /\ mem' = <<>>
  /\ ret' = <<branch_root(arg[1], arg[2], arg[3])>>
  /\ UNCHANGED <<storage, leaves, arg, calls, kvars>>

\* MerkleTree::root(&self)
RootAny ==
  /\ op = "none" /\ Len(arg) = 1
  /\ LET res == root(arg[1]) IN
     /\ op' = "root"
     /\ err' = res.err
     /\ mem' = <<root_receiver(arg[1])>>
     /\ ret' = res.value
  /\ UNCHANGED <<storage, leaves, arg, calls, kvars>>

NextPure == BranchRootAny \/ RootAny

SpecPure == InitPure /\ [][NextPure]_allvars

----------------------------------------------------------------------------
\* Byte level: Keccak-256 on real bytes, the literal table of zero_hashes and
\* root_with_ctx at the depth of the source.

\* const TREE_DEPTH: usize = 32
TREE_DEPTH_32 == 32

\* BytesN::from_array(&env, &[0; 32]) as bytes.
ZERO_BYTES == [j \in 1..32 |-> 0]

\* The 32 literal arrays of zero_hashes, in the order of the source.
ZeroHashLiterals == <<
  <<0, 0, 0, 0, 0, 0, 0, 0, 0, 0, 0, 0, 0, 0, 0, 0, 0, 0, 0, 0, 0, 0, 0, 0, 0, 0, 0, 0, 0, 0, 0, 0>>,
  <<173, 50, 40, 182, 118, 247, 211, 205, 66, 132, 165, 68, 63, 23, 241, 150, 43, 54, 228, 145, 179, 10, 64, 178, 64, 88, 73, 229, 151, 186, 95, 181>>,
  <<180, 193, 25, 81, 149, 124, 111, 143, 100, 44, 74, 246, 28, 214, 178, 70, 64, 254, 198, 220, 127, 198, 7, 238, 130, 6, 169, 158, 146, 65, 13, 48>>,
  <<33, 221, 185, 163, 86, 129, 92, 63, 172, 16, 38, 182, 222, 197, 223, 49, 36, 175, 186, 219, 72, 92, 155, 165, 163, 227, 57, 138, 4, 183, 186, 133>>,
  <<229, 135, 105, 179, 42, 27, 234, 241, 234, 39, 55, 90, 68, 9, 90, 13, 31, 182, 100, 206, 45, 211, 88, 231, 252, 191, 183, 140, 38, 161, 147, 68>>,
  <<14, 176, 30, 191, 201, 237, 39, 80, 12, 212, 223, 201, 121, 39, 45, 31, 9, 19, 204, 159, 102, 84, 13, 126, 128, 5, 129, 17, 9, 225, 207, 45>>,
  <<136, 124, 34, 189, 135, 80, 211, 64, 22, 172, 60, 102, 181, 255, 16, 45, 172, 221, 115, 246, 176, 20, 231, 16, 181, 30, 128, 34, 175, 154, 25, 104>>,
  <<255, 215, 1, 87, 228, 128, 99, 252, 51, 201, 122, 5, 15, 127, 100, 2, 51, 191, 100, 108, 201, 141, 149, 36, 198, 185, 43, 207, 58, 181, 111, 131>>,
  <<152, 103, 204, 95, 127, 25, 107, 147, 186, 225, 226, 126, 99, 32, 116, 36, 69, 210, 144, 242, 38, 56, 39, 73, 139, 84, 254, 197, 57, 247, 86, 175>>,
  <<206, 250, 212, 229, 8, 192, 152, 185, 167, 225, 216, 254, 177, 153, 85, 251, 2, 186, 150, 117, 88, 80, 120, 113, 9, 105, 211, 68, 15, 80, 84, 224>>,
  <<249, 220, 62, 127, 224, 22, 224, 80, 239, 242, 96, 51, 79, 24, 165, 212, 254, 57, 29, 130, 9, 35, 25, 245, 150, 79, 46, 46, 183, 193, 195, 165>>,
  <<248, 177, 58, 73, 226, 130, 246, 9, 195, 23, 168, 51, 251, 141, 151, 109, 17, 81, 124, 87, 29, 18, 33, 162, 101, 210, 90, 247, 120, 236, 248, 146>>,
  <<52, 144, 198, 206, 235, 69, 10, 236, 220, 130, 226, 130, 147, 3, 29, 16, 199, 215, 59, 248, 94, 87, 191, 4, 26, 151, 54, 10, 162, 197, 217, 156>>,
  <<193, 223, 130, 217, 196, 184, 116, 19, 234, 226, 239, 4, 143, 148, 180, 211, 85, 76, 234, 115, 217, 43, 15, 122, 249, 110, 2, 113, 198, 145, 226, 187>>,
  <<92, 103, 173, 215, 198, 202, 243, 2, 37, 106, 222, 223, 122, 177, 20, 218, 10, 207, 232, 112, 212, 73, 163, 164, 137, 247, 129, 214, 89, 232, 190, 204>>,
  <<218, 123, 206, 159, 78, 134, 24, 182, 189, 47, 65, 50, 206, 121, 140, 220, 122, 96, 231, 225, 70, 10, 114, 153, 227, 198, 52, 42, 87, 150, 38, 210>>,
  <<39, 51, 229, 15, 82, 110, 194, 250, 25, 162, 43, 49, 232, 237, 80, 242, 60, 209, 253, 249, 76, 145, 84, 237, 58, 118, 9, 162, 241, 255, 152, 31>>,
  <<225, 211, 181, 200, 7, 178, 129, 228, 104, 60, 198, 214, 49, 92, 249, 91, 154, 222, 134, 65, 222, 252, 179, 35, 114, 241, 193, 38, 227, 152, 239, 122>>,
  <<90, 45, 206, 10, 138, 127, 104, 187, 116, 86, 15, 143, 113, 131, 124, 44, 46, 187, 203, 247, 255, 251, 66, 174, 24, 150, 241, 63, 124, 116, 121, 160>>,
  <<180, 106, 40, 182, 245, 85, 64, 248, 148, 68, 246, 61, 224, 55, 142, 61, 18, 27, 224, 158, 6, 204, 157, 237, 28, 32, 230, 88, 118, 211, 106, 160>>,
  <<198, 94, 150, 69, 100, 71, 134, 182, 32, 226, 221, 42, 214, 72, 221, 252, 191, 74, 126, 91, 26, 58, 78, 207, 231, 246, 70, 103, 163, 240, 183, 226>>,
  <<244, 65, 133, 136, 237, 53, 162, 69, 140, 255, 235, 57, 185, 61, 38, 241, 141, 42, 177, 59, 220, 230, 174, 229, 142, 123, 153, 53, 158, 194, 223, 217>>,
  <<90, 156, 22, 220, 0, 214, 239, 24, 183, 147, 58, 111, 141, 198, 92, 203, 85, 102, 113, 56, 119, 111, 125, 234, 16, 16, 112, 220, 135, 150, 227, 119>>,
  <<77, 248, 79, 64, 174, 12, 130, 41, 208, 214, 6, 158, 92, 143, 57, 167, 194, 153, 103, 122, 9, 211, 103, 252, 123, 5, 227, 188, 56, 14, 230, 82>>,
  <<205, 199, 37, 149, 247, 76, 123, 16, 67, 208, 225, 255, 186, 183, 52, 100, 140, 131, 141, 251, 5, 39, 217, 113, 182, 2, 188, 33, 108, 150, 25, 239>>,
  <<10, 191, 90, 201, 116, 161, 237, 87, 244, 5, 10, 165, 16, 221, 156, 116, 245, 8, 39, 123, 57, 215, 151, 59, 178, 223, 204, 197, 238, 176, 97, 141>>,
  <<184, 205, 116, 4, 111, 243, 55, 240, 167, 191, 44, 142, 3, 225, 15, 100, 44, 24, 134, 121, 141, 113, 128, 106, 177, 232, 136, 217, 229, 238, 135, 208>>,
  <<131, 140, 86, 85, 203, 33, 198, 203, 131, 49, 59, 90, 99, 17, 117, 223, 244, 150, 55, 114, 204, 233, 16, 129, 136, 179, 74, 200, 124, 129, 196, 30>>,
  <<102, 46, 228, 221, 45, 215, 178, 188, 112, 121, 97, 177, 230, 70, 196, 4, 118, 105, 220, 182, 88, 79, 13, 141, 119, 13, 175, 93, 126, 125, 235, 46>>,
  <<56, 138, 178, 14, 37, 115, 209, 113, 168, 129, 8, 231, 157, 130, 14, 152, 242, 108, 11, 132, 170, 139, 47, 74, 164, 150, 141, 187, 129, 142, 163, 34>>,
  <<147, 35, 124, 80, 186, 117, 238, 72, 95, 76, 34, 173, 242, 247, 65, 64, 11, 223, 141, 106, 156, 199, 223, 126, 202, 229, 118, 34, 22, 101, 215, 53>>,
  <<132, 72, 129, 139, 180, 174, 69, 98, 132, 158, 148, 158, 23, 172, 22, 224, 190, 22, 104, 142, 21, 107, 92, 241, 94, 9, 140, 98, 124, 0, 86, 169>> >>

\* zero_hashes with a single byte of entry 17 mistyped.
zero_hashes_bytes_typo == [ZeroHashLiterals EXCEPT ![18][5] = (@ + 1) % 256]

\* _zeroes after _zeroes.insert(k, literal k) for k = i .. 31.
RECURSIVE zero_hashes_build(_, _)
zero_hashes_build(_zeroes, i) ==
  IF i >= Len(ZeroHashLiterals) THEN _zeroes
  ELSE zero_hashes_build(VecInsert(_zeroes, i, ZeroHashLiterals[i + 1]), i + 1)

\* MerkleTree::zero_hashes: the table it returns, entry i at index i + 1.
zero_hashes_bytes == zero_hashes_build(<<>>, 0)

\* Keccak-f[1600]: the rotation offsets of rho, lane x + 5y at index x + 5y + 1.
KeccakRho == <<0, 1, 62, 28, 27, 36, 44, 6, 55, 20, 3, 10, 43, 25, 39, 41, 45, 15, 21, 8, 18, 2, 61, 56, 14>>

\* Keccak-f[1600]: the bits set in the round constant of iota, per round.
KeccakRC == <<
  {0},
  {1, 7, 15},
  {1, 3, 7, 15, 63},
  {15, 31, 63},
  {0, 1, 3, 7, 15},
  {0, 31},
  {0, 7, 15, 31, 63},
  {0, 3, 15, 63},
  {1, 3, 7},
  {3, 7},
  {0, 3, 15, 31},
  {1, 3, 31},
  {0, 1, 3, 7, 15, 31},
  {0, 1, 3, 7, 63},
  {0, 3, 7, 15, 63},
  {0, 1, 15, 63},
  {1, 15, 63},
  {7, 63},
  {1, 3, 15},
  {1, 3, 31, 63},
  {0, 7, 15, 31, 63},
  {7, 15, 63},
  {0, 31},
  {3, 15, 31, 63} >>

\* Bit k of byte v.
ByteBit(v, k) == (v \div 2^k) % 2 = 1

\* Keccak::v256(), update(a), update(b) and the padding of finalize: the
\* 1600-bit state after the 64 bytes a ++ b are absorbed into the 136-byte
\* rate with the Keccak padding 0x01 .. 0x80 (bit n of the state is bit n % 8
\* of byte n \div 8; lanes are little-endian).
KeccakAbsorb(a, b) == [n \in 0..1599 |->
  LET byte == n \div 8
      k == n % 8
  IN IF byte < 32 THEN ByteBit(a[byte + 1], k)
     ELSE IF byte < 64 THEN ByteBit(b[byte - 31], k)
     ELSE IF byte = 64 THEN k = 0
     ELSE IF byte = 135 THEN k = 7
     ELSE FALSE]

\* One round r of Keccak-f[1600] (theta, rho, pi, chi, iota) on state A; bit
\* z of lane (x, y) is A[64 * (x + 5y) + z].
KeccakRound(A, r) ==
  LET \* theta: the column parities C[x] and D[x] = C[x-1] xor rot(C[x+1], 1),
      \* bit z of column x at index 64x + z + 1 (sequences, computed once).
      C == [n \in 1..320 |->
             LET x == (n - 1) \div 64
                 z == (n - 1) % 64
             IN (A[64 * x + z] # A[64 * (x + 5) + z])
                # ((A[64 * (x + 10) + z] # A[64 * (x + 15) + z]) # A[64 * (x + 20) + z])] \o <<>>
      D == [n \in 1..320 |->
             LET x == (n - 1) \div 64
                 z == (n - 1) % 64
             IN C[64 * ((x + 4) % 5) + z + 1] # C[64 * ((x + 1) % 5) + ((z + 63) % 64) + 1]] \o <<>>
      Theta(x, y, z) == A[64 * (x + 5 * y) + z] # D[64 * x + z + 1]
      \* rho and pi: B[y, 2x + 3y] = rot(A[x, y], rho[x, y]), read from the
      \* target lane (X, Y).
      B(X, Y, z) == LET x == (X + 3 * Y) % 5
                        y == X
                    IN Theta(x, y, (z + 64 - KeccakRho[x + 5 * y + 1]) % 64)
      Chi(X, Y, z) == B(X, Y, z) # ((~B((X + 1) % 5, Y, z)) /\ B((X + 2) % 5, Y, z))
  IN [n \in 0..1599 |->
       LET z == n % 64
           l == n \div 64
       IN IF l = 0 THEN Chi(0, 0, z) # (z \in KeccakRC[r + 1])
          ELSE Chi(l % 5, l \div 5, z)]

\* finalize(&mut output): the first 32 bytes of the state.
KeccakSqueeze(A) ==
  [j \in 1..32 |->
    LET bit(k) == IF A[8 * (j - 1) + k] THEN 2^k ELSE 0
    IN bit(0) + bit(1) + bit(2) + bit(3) + bit(4) + bit(5) + bit(6) + bit(7)]

\* The value root_with_ctx starts from, as bytes.
root_start_bytes == ZERO_BYTES

\* The index root_with_ctx reads the table at, at level i.
root_zero_index(i) == i

\* root_items padding an empty level with _next instead of the table entry.
root_items_pad_next(self, _zeroes, _current, i) ==
  LET got == VecGet(self.branch, i)
      _next == IF got = <<>> THEN ZERO_BYTES ELSE got[1]
  IN IF Bit(self.count, i) = 1
     THEN <<_next, _current>>
     ELSE <<_current, _next>>

\* The two items root_with_ctx hashes at level i, in order.
root_items(self, _zeroes, _current, i) ==
  LET got == VecGet(self.branch, i)
      _next == IF got = <<>> THEN ZERO_BYTES ELSE got[1]
  IN IF Bit(self.count, i) = 1
     THEN <<_next, _current>>
     ELSE <<_current, _zeroes[root_zero_index(i) + 1]>>

\* What the hasher is given in the current position.
KInput ==
  IF kjob = "zero_hash" THEN <<zero_hashes_bytes[ki], zero_hashes_bytes[ki]>>
  ELSE IF ki < TREE_DEPTH_32 THEN root_items(Contract_get_tree(<<>>), zero_hashes_bytes, kcur, ki)
  ELSE <<zero_hashes_bytes[TREE_DEPTH_32], zero_hashes_bytes[TREE_DEPTH_32]>>

\* keccak256, step by step.
KAbsorb ==
  /\ kpc = "start"
  /\ kA' = KeccakAbsorb(KInput[1], KInput[2])
  /\ kround' = 0
  /\ kpc' = "permute"
  /\ UNCHANGED <<kjob, ki, kcur, kroot, vars>>

KRound ==
  /\ kpc = "permute"
  /\ kround < 24
  /\ kA' = KeccakRound(kA, kround)
  /\ kround' = kround + 1
  /\ UNCHANGED <<kjob, ki, kcur, kroot, kpc, vars>>

\* keccak256(vec![Z[ki - 1], Z[ki - 1]]) returns.
KZeroHashDone ==
  /\ kjob = "zero_hash"
  /\ kpc = "permute"
  /\ kround = 24
  /\ kcur' = KeccakSqueeze(kA)
  /\ kpc' = "done"
  /\ UNCHANGED <<kjob, ki, kA, kround, kroot, vars>>

\* One iteration of the loop of root_with_ctx ends; after the last one the
\* function returns _current.
KRootIter ==
  /\ kjob = "root"
  /\ kpc = "permute"
  /\ kround = 24
  /\ ki < TREE_DEPTH_32
  /\ kcur' = KeccakSqueeze(kA)
  /\ ki' = ki + 1
  /\ kroot' = IF ki + 1 = TREE_DEPTH_32 THEN <<KeccakSqueeze(kA)>> ELSE kroot
  /\ kpc' = "start"
  /\ UNCHANGED <<kjob, kA, kround, vars>>

\* keccak256(vec![Z[31], Z[31]]) returns: the value the root is compared with.
KExpected ==
  /\ kjob = "root"
  /\ kpc = "permute"
  /\ kround = 24
  /\ ki = TREE_DEPTH_32
  /\ kcur' = KeccakSqueeze(kA)
  /\ kpc' = "done"
  /\ UNCHANGED <<kjob, ki, kA, kround, kroot, vars>>

\* Either keccak256 of two equal table entries, or get_root on absent storage.
InitKeccak ==
  /\ storage = <<>> /\ leaves = <<>> /\ op = "none" /\ err = Ok
  /\ mem = <<>> /\ arg = <<>> /\ ret = <<>> /\ calls = 0
  /\ kpc = "start"
  /\ kround = 0
  /\ kA = [n \in 0..1599 |-> FALSE]
  /\ kroot = <<>>
  /\ \/ kjob = "zero_hash" /\ ki \in 1..(TREE_DEPTH_32 - 1) /\ kcur = <<>>
     \/ kjob = "root" /\ ki = 0 /\ kcur = root_start_bytes

NextKeccak ==
  \/ KAbsorb
  \/ KRound
  \/ KZeroHashDone
  \/ KRootIter
  \/ KExpected

SpecKeccak == InitKeccak /\ [][NextKeccak]_allvars

----------------------------------------------------------------------------
\* Definitions the claims are stated with.

\* The frontier after inserting ls one by one into the empty frontier.
RECURSIVE FoldInsert(_)
FoldInsert(ls) ==
  IF ls = <<>> THEN EmptyTree
  ELSE insert(FoldInsert(SubSeq(ls, 1, Len(ls) - 1)), ls[Len(ls)]).tree

\* The persisted tree (absent storage read as the empty frontier).
Stored == Contract_get_tree(storage)

\* Number of low bits of n that are set.
RECURSIVE TrailingOnes(_)
TrailingOnes(n) == IF n % 2 = 0 THEN 0 ELSE 1 + TrailingOnes(n \div 2)

\* The carry after t levels: the node combined with branch[0 .. t-1].
RECURSIVE Carry(_, _, _)
Carry(b, node, t) == IF t = 0 THEN node ELSE keccak256(b[t], Carry(b, node, t - 1))

\* The bit length of n: 0 for 0, otherwise floor(log2(n)) + 1.
RECURSIVE BitLen(_)
BitLen(n) == IF n = 0 THEN 0 ELSE 1 + BitLen(n \div 2)

\* A frontier with every slot that insert and root read in place.
WellFormed(t) ==
  /\ Len(t.branch) <= TREE_DEPTH
  /\ \A i \in 0..(TREE_DEPTH - 1) : Bit(t.count, i) = 1 => i < Len(t.branch)

\* C1: for every n up to the capacity and every sequence of n leaves, after
\* inserting them one by one from the empty frontier, root() is the root of
\* the reference tree (those leaves, then zero leaves, inner nodes
\* keccak256(left, right)), and get_root returns that root.
C1_RootIsReferenceRoot ==
  /\ root(Stored) = [err |-> Ok, value |-> <<RefRoot(leaves)>>]
  /\ op = "get_root" => err = Ok /\ ret = <<RefRoot(leaves)>>

C1_Witness ==
  /\ Len(leaves) = 2^TREE_DEPTH - 1
  /\ \E i, j \in 1..Len(leaves) : leaves[i] = ZERO /\ leaves[j] # ZERO
  /\ op = "get_root"
  /\ ret = <<RefRoot(leaves)>>

\* C2: after inserting l_0 .. l_(n-1), for every i < n, branch_root of l_i,
\* the full sibling path of position i in the reference tree and i is root()
\* (BranchRoot makes that call for every i < n in every reachable state).
C2_ProofRoundTrip ==
  op = "branch_root" => err = Ok /\ ret = root(Stored).value

C2_Witness ==
  /\ op = "branch_root"
  /\ Len(leaves) = 2^TREE_DEPTH - 1
  /\ arg # <<ZERO>>
  /\ \E i \in 1..Len(leaves) : leaves[i] = ZERO
  /\ ret = root(Stored).value

\* C3: insert fails with MerkleTreeFull exactly when count >= 2^depth - 1
\* before the call, succeeds for every smaller count on a well-formed
\* frontier, and a rejected call leaves branch and count as they were (in
\* memory and in storage).
C3_TreeFullExactlyAtCapacity ==
  [][op' = "insert" =>
       /\ (err' = MerkleTreeFull <=> Stored.count >= 2^TREE_DEPTH - 1)
       /\ (Stored.count < 2^TREE_DEPTH - 1 /\ WellFormed(Stored) => err' = Ok)
       /\ (err' = MerkleTreeFull => mem' = <<Stored>> /\ storage' = storage)]_allvars

C3_Witness ==
  /\ op = "insert"
  /\ err = MerkleTreeFull
  /\ storage # <<>>
  /\ mem = storage
  /\ Stored.count = 2^TREE_DEPTH - 1
  /\ ~WellFormed(Stored)

\* C4 as stated: in every state reachable from the empty frontier by inserts,
\* count < 2^depth - 1.
C4_CountBelowCapacity == Stored.count < 2^TREE_DEPTH - 1

\* C4 amended: in every reachable state count <= 2^depth - 1; an insert at
\* count <= 2^depth - 2 succeeds and adds one, and the insert attempted at
\* count = 2^depth - 1 is rejected with MerkleTreeFull and changes nothing.
C4_CapacityAmended ==
  [][/\ Contract_get_tree(storage').count <= 2^TREE_DEPTH - 1
     /\ (op' = "insert" /\ Stored.count <= 2^TREE_DEPTH - 2) =>
          err' = Ok /\ Contract_get_tree(storage').count = Stored.count + 1
     /\ (op' = "insert" /\ Stored.count = 2^TREE_DEPTH - 1) =>
          err' = MerkleTreeFull /\ storage' = storage /\ mem' = <<Stored>>]_allvars

C4_Witness ==
  /\ op = "insert"
  /\ err = MerkleTreeFull
  /\ Len(leaves) = 2^TREE_DEPTH - 1
  /\ Stored.count = 2^TREE_DEPTH - 1
  /\ Stored = FoldInsert(leaves)

\* C5: root() and get_root are reads.  On every frontier reached by inserts,
\* a root() call leaves the tree value it was called on as it was, get_root
\* leaves the persisted tree as it was and has loaded exactly that tree, and
\* a root() or get_root call that follows another one with no insert in
\* between returns the same hash, the root of the reference tree of the
\* inserted leaves.
C5_RootIsPureRead ==
  [][op' \in {"root", "get_root"} =>
       /\ storage' = storage
       /\ calls' # calls => (op' = "root" /\ mem' = mem)
       /\ op' = "get_root" => mem' = <<Stored>>
       /\ Contract_get_tree(storage').count = Len(leaves')
       /\ mem'[1].count = Len(leaves')
       /\ op \in {"root", "get_root"} =>
            /\ ret' = ret /\ err' = err
            /\ ret' = <<RefRoot(leaves)>>]_allvars

\* The second of two root() calls in a row on the tree that the third
\* insert returned.
C5_Witness ==
  /\ op = "root" /\ err = Ok
  /\ calls = 2
  /\ Len(leaves) = 3 /\ leaves[3] # ZERO
  /\ mem = <<FoldInsert(leaves)>>
  /\ storage = mem
  /\ ret = <<RefRoot(leaves)>>

\* C6: root() of the freshly constructed frontier (count = 0, branch = [])
\* is keccak256(Z[depth-1], Z[depth-1]): on terms at the scaled depth, and on
\* bytes with Keccak-256 and the table of the source at depth 32.
C6_EmptyRoot ==
  /\ root(EmptyTree) = [err |-> Ok, value |->
        <<keccak256(zero_hashes[TREE_DEPTH], zero_hashes[TREE_DEPTH])>>]
  /\ (kjob = "root" /\ kpc = "done") => kroot = <<kcur>>

C6_Witness ==
  /\ kjob = "root"
  /\ kpc = "done"
  /\ ki = TREE_DEPTH_32
  /\ kround = 24
  /\ kroot = <<kcur>>

\* C7: the table of zero_hashes has 32 entries, entry 0 is 32 zero bytes and
\* entry i, for i in 1..31, is Keccak-256 of entry i-1 followed by entry i-1.
C7_ZeroTableConsistent ==
  /\ Len(zero_hashes_bytes) = TREE_DEPTH_32
  /\ zero_hashes_bytes[1] = ZERO_BYTES
  /\ (kjob = "zero_hash" /\ kpc = "done") => kcur = zero_hashes_bytes[ki + 1]

C7_Witness ==
  /\ kjob = "zero_hash"
  /\ kpc = "done"
  /\ ki = TREE_DEPTH_32 - 1
  /\ kcur = zero_hashes_bytes[TREE_DEPTH_32]

\* C8: insert on a frontier with more than depth branch entries and count
\* below capacity fails with MerkleTreeInvalidVecSize and changes nothing;
\* root on such a frontier, or with a table whose length is not depth, fails
\* with MerkleTreeInvalidVecSize.
C8_InvalidVecSize ==
  [][/\ (op' = "insert" /\ Len(Stored.branch) > TREE_DEPTH /\ Stored.count < 2^TREE_DEPTH - 1) =>
          err' = MerkleTreeInvalidVecSize /\ mem' = <<Stored>> /\ storage' = storage
     /\ (op' = "get_root" /\ Len(Stored.branch) > TREE_DEPTH) =>
          err' = MerkleTreeInvalidVecSize /\ ret' = <<>> /\ storage' = storage
     /\ (op' = "root_with_ctx" /\ (Len(Stored.branch) > TREE_DEPTH \/ Len(arg'[1]) # TREE_DEPTH)) =>
          err' = MerkleTreeInvalidVecSize /\ ret' = <<>> /\ storage' = storage]_allvars

C8_Witness ==
  /\ op = "insert"
  /\ err = MerkleTreeInvalidVecSize
  /\ storage # <<>>
  /\ mem = storage
  /\ Len(Stored.branch) = TREE_DEPTH + 1
  /\ Stored.count < 2^TREE_DEPTH - 1

\* C9: the tree stored under TREE is the frontier obtained by applying insert,
\* in call order, to the leaves of the successful Contract.insert calls; a
\* successful call returns the tree it stored; the stored count is the number
\* of successful calls.
C9_StorageIsFoldOfInserts ==
  /\ Stored = FoldInsert(leaves)
  /\ Stored.count = Len(leaves)
  /\ (storage = <<>>) <=> (leaves = <<>>)
  /\ (op = "insert" /\ err = Ok) => ret = storage /\ ret # <<>>

C9_Witness ==
  /\ op = "insert"
  /\ err = Ok
  /\ Len(leaves) = 2^TREE_DEPTH - 2
  /\ ret = <<FoldInsert(leaves)>>
  /\ storage = ret

\* C10: a Contract.insert call either stores the fully updated tree (count
\* plus one, the carry of the node written at the level of the lowest set bit
\* of the new count, the other slots kept), or fails (MerkleTreeFull,
\* MerkleTreeInvalidVecSize or a panic after count was incremented in memory)
\* and leaves the persisted tree as it was, whatever tree was persisted.
C10_InsertAtomic ==
  [][op' = "insert" =>
       \/ /\ err' = Ok
          /\ LET t == TrailingOnes(Stored.count)
                 new == Contract_get_tree(storage')
             IN /\ storage' = mem'
                /\ new.count = Stored.count + 1
                /\ Len(new.branch) = IF t < Len(Stored.branch) THEN Len(Stored.branch) ELSE t + 1
                /\ \A k \in 1..Len(new.branch) :
                     new.branch[k] = IF k = t + 1 THEN Carry(Stored.branch, arg'[1], t)
                                     ELSE Stored.branch[k]
       \/ /\ err' # Ok
          /\ storage' = storage]_allvars

C10_Witness ==
  /\ op = "insert"
  /\ err = PanicExpect
  /\ storage # <<>>
  /\ mem[1].count = Stored.count + 1
  /\ mem[1].branch = Stored.branch

\* C11: in every frontier reachable from the empty one by inserts, for every
\* bit i set in count, branch[i] is the root of the filled subtree of height
\* i over the 2^i inserted leaves that start at position
\* (count >> (i+1)) << (i+1), i.e. node 2 * (count >> (i+1)) of level i of
\* the reference tree.
C11_BranchHoldsFilledSubtrees ==
  \A i \in 0..(TREE_DEPTH - 1) :
    Bit(Stored.count, i) = 1 =>
      /\ i < Len(Stored.branch)
      /\ Stored.count = Len(leaves)
      /\ 2^i * (2 * (Stored.count \div 2^(i + 1)) + 1) <= Len(leaves)
      /\ Stored.branch[i + 1] = RefNode(leaves, i, 2 * (Stored.count \div 2^(i + 1)))

\* A full frontier of non-zero and zero leaves: every bit of count is set.
C11_Witness ==
  /\ op = "insert" /\ err = Ok
  /\ Stored.count = 2^TREE_DEPTH - 1
  /\ \E p, q \in 1..Len(leaves) : leaves[p] # leaves[q]
  /\ Stored.branch[TREE_DEPTH] = RefNode(leaves, TREE_DEPTH - 1, 0)

\* C12: on every frontier reachable from the empty one by inserts whose count
\* is below the capacity MAX_LEAVES, insert stores and returns inside the
\* loop: the level t of the lowest set bit of the new count is below
\* TREE_DEPTH and every slot below t, the ones read as carries, is present,
\* so neither assert!(false) nor expect("Error to get leaf") fires and the
\* call returns the stored tree.
C12_InsertReturnsInLoop ==
  [][(op' = "insert" /\ Stored.count < MAX_LEAVES) =>
       LET t == TrailingOnes(Stored.count) IN
       /\ t < TREE_DEPTH
       /\ \A i \in 0..(t - 1) : VecGet(Stored.branch, i) # <<>>
       /\ err' \notin {PanicAssert, PanicExpect, PanicVecIndex}
       /\ err' = Ok
       /\ ret' = storage'
       /\ Contract_get_tree(storage').count = Stored.count + 1]_allvars

\* The insert whose carry runs through every level below the top one.
C12_Witness ==
  /\ op = "insert" /\ err = Ok
  /\ Stored.count = 2^(TREE_DEPTH - 1)
  /\ Len(Stored.branch) = TREE_DEPTH
  /\ ret = <<Stored>>

\* C13: in every frontier reachable from the empty one by inserts, the length
\* of branch is the bit length of count, hence at most TREE_DEPTH; an insert
\* that lengthens branch adds one slot, at index len(branch), the level of
\* the lowest set bit of the new count, and keeps the slots below it.
C13_BranchLengthIsBitLength ==
  [][LET old == Stored
         new == Contract_get_tree(storage')
     IN /\ Len(old.branch) = BitLen(old.count)
        /\ Len(new.branch) = BitLen(new.count)
        /\ Len(new.branch) <= TREE_DEPTH
        /\ Len(new.branch) # Len(old.branch) =>
             /\ Len(new.branch) = Len(old.branch) + 1
             /\ TrailingOnes(old.count) = Len(old.branch)
             /\ SubSeq(new.branch, 1, Len(old.branch)) = old.branch]_allvars

\* The insert that appends the top slot, at index TREE_DEPTH - 1.
C13_Witness ==
  /\ op = "insert" /\ err = Ok
  /\ Stored.count = 2^(TREE_DEPTH - 1)
  /\ Len(Stored.branch) = TREE_DEPTH
  /\ Stored.branch[TREE_DEPTH] = RefNode(leaves, TREE_DEPTH - 1, 0)

\* C14: a successful insert, on whatever tree was persisted, adds one to
\* count and writes one slot of branch, the one at the index t of the lowest
\* set bit of the new count (appended when branch has no slot t, overwritten
\* otherwise) with the carry of the node through the slots below t; every
\* other slot, the ones below t read for the carry included, keeps its value.
C14_InsertWritesOneSlot ==
  [][(op' = "insert" /\ err' = Ok) =>
       LET old == Stored
           new == Contract_get_tree(storage')
           t == TrailingOnes(old.count)
           Written == {k \in 1..Len(new.branch) :
                         k > Len(old.branch) \/ new.branch[k] # old.branch[k]}
       IN /\ new.count = old.count + 1
          /\ Bit(new.count, t) = 1
          /\ \A i \in 0..(t - 1) : Bit(new.count, i) = 0
          /\ Written \subseteq {t + 1}
          /\ Len(new.branch) = IF t < Len(old.branch) THEN Len(old.branch)
                               ELSE Len(old.branch) + 1
          /\ new.branch[t + 1] = Carry(old.branch, arg'[1], t)
          /\ \A k \in 1..Len(old.branch) : k # t + 1 => new.branch[k] = old.branch[k]]_allvars

\* An insert that read two slots for its carry and wrote the third one.
C14_Witness ==
  /\ op = "insert" /\ err = Ok
  /\ Stored.count % 8 = 4
  /\ Len(Stored.branch) >= 3
  /\ Stored.branch[1] # ZERO
  /\ Stored.branch[3] = keccak256(Stored.branch[2], keccak256(Stored.branch[1], arg[1]))

\* Whether h is the hash that opens to item along path: from the top level
\* down, the sibling path[lvl] is the left operand and the hash below the
\* right one when bit lvl - 1 of idx is set, the other way round when clear.
RECURSIVE Opens(_, _, _, _, _)
Opens(h, item, path, idx, lvl) ==
  IF lvl = 0 THEN h = item
  ELSE /\ Len(h) = 2
       /\ IF Bit(idx, lvl - 1) = 1
          THEN h[1] = path[lvl] /\ Opens(h[2], item, path, idx, lvl - 1)
          ELSE h[2] = path[lvl] /\ Opens(h[1], item, path, idx, lvl - 1)

\* A proof extended to TREE_DEPTH entries with zero entries.
ZeroPadded(proof) == proof \o [j \in 1..(TREE_DEPTH - Len(proof)) |-> ZERO]

\* C15: for every item, index and proof of at most TREE_DEPTH entries,
\* branch_root(item, proof, index) is branch_root of the proof extended with
\* zero entries to TREE_DEPTH, and it is built level by level with the hash
\* so far as the right operand where the bit of the index is set and as the
\* left operand where it is clear.
C15_MissingEntryIsZero ==
  (op = "branch_root" /\ Len(arg) = 3) =>
    LET padded == ZeroPadded(arg[2]) IN
    /\ Len(padded) = TREE_DEPTH
    /\ ret = <<branch_root(arg[1], padded, arg[3])>>
    /\ Opens(ret[1], arg[1], padded, arg[3], TREE_DEPTH)

\* A one-entry proof at an index with every bit set: the padded zero entry
\* is the left operand at the top.
C15_Witness ==
  /\ op = "branch_root" /\ Len(arg) = 3
  /\ arg[1] # ZERO
  /\ Len(arg[2]) = 1 /\ arg[2][1] # ZERO
  /\ arg[3] = 2^TREE_DEPTH - 1
  /\ ret[1][1] = ZERO
  /\ ret[1] # branch_root(arg[1], <<>>, arg[3])

\* C16: with hashes as terms (no collisions), for every frontier reached by
\* one or more inserts and every inserted position i, branch_root of leaf i
\* with the first k entries of its sibling path, 1 <= k < TREE_DEPTH, is not
\* root(), while the whole path gives root(): the siblings at levels 1 and
\* up are hashes of subtrees, never the zero entry that stands for a missing
\* one (the empty-subtree literals of the source above level 0 are not zero
\* bytes either); only the sibling at level 0 can be the zero entry.
C16_ShortProofsFail ==
  /\ \A j \in 2..TREE_DEPTH_32 : ZeroHashLiterals[j] # ZERO_BYTES
  /\ LET r == root(Stored).value \o <<>> IN
     \A i \in 0..(Len(leaves) - 1) :
       LET path == RefPath(leaves, i) \o <<>>
       IN /\ \A h \in 2..TREE_DEPTH : path[h] # ZERO
          /\ r = <<branch_root(leaves[i + 1], path, i)>>
          /\ \A k \in 1..(TREE_DEPTH - 1) :
               r # <<branch_root(leaves[i + 1], SubSeq(path, 1, k), i)>>

\* One leaf inserted: its sibling at level 0 is the zero entry, the siblings
\* above are empty subtrees, and the proof cut after level 0 does not verify.
C16_Witness ==
  /\ op = "insert" /\ err = Ok
  /\ Len(leaves) = 1 /\ leaves[1] # ZERO
  /\ RefPath(leaves, 0)[1] = ZERO
  /\ RefPath(leaves, 0)[2] = zero_hash(1)
  /\ root(Stored).value = <<branch_root(leaves[1], RefPath(leaves, 0), 0)>>
  /\ root(Stored).value # <<branch_root(leaves[1], <<ZERO>>, 0)>>

\* Two trees with the same count and the same slot (present and equal, or
\* absent in both) at every level whose bit is set in count.
AgreeOnSetBits(t1, t2) ==
  /\ t1.count = t2.count
  /\ \A i \in 0..(TREE_DEPTH - 1) :
       Bit(t1.count, i) = 1 => VecGet(t1.branch, i) = VecGet(t2.branch, i)

\* C17: root() of a tree with at most TREE_DEPTH slots succeeds and is the
\* root() of every other such tree that has the same count and the same
\* slots at the levels whose bit is set in count: the slots at the levels
\* whose bit is clear, and their number, do not influence the root.
C17_RootReadsSetBitSlots ==
  (op = "root" /\ Len(mem[1].branch) <= TREE_DEPTH) =>
    /\ err = Ok
    /\ \A t2 \in AnyTrees :
         (Len(t2.branch) <= TREE_DEPTH /\ AgreeOnSetBits(mem[1], t2)) =>
           root(t2) = [err |-> Ok, value |-> ret]

\* root() of a tree shaped like the frontier after two inserts, with a
\* non-zero stale slot at level 0: the same root as with a zero slot there.
C17_Witness ==
  /\ op = "root" /\ err = Ok
  /\ mem[1].count = 2
  /\ Len(mem[1].branch) = 2
  /\ mem[1].branch[1] # ZERO
  /\ ret = root(MerkleTree(<<ZERO, mem[1].branch[2]>>, 2)).value
  /\ ret = <<root_loop(mem[1], zero_hashes, ZERO, 0)>>

\* C18: a full frontier stays as it is.  An insert is rejected with
\* MerkleTreeFull only when count is MAX_LEAVES, and from then on no
\* operation changes the persisted tree (count and branch; root() is compared
\* over the contract's calls insert and get_root) and every insert is
\* rejected with MerkleTreeFull again; no operation ever lowers count.
C18_FullIsAbsorbing ==
  [][LET old == Stored
         new == Contract_get_tree(storage')
     IN /\ new.count >= old.count
        /\ (op' = "insert" /\ err' = MerkleTreeFull) => old.count = MAX_LEAVES
        /\ old.count = MAX_LEAVES =>
             /\ new.count = old.count
             /\ new.branch = old.branch
             /\ op' \in {"insert", "get_root"} => root(new) = root(old)
             /\ op' = "insert" => (err' = MerkleTreeFull /\ ret' = <<>>)]_allvars

\* A rejected insert of a zero leaf on the full frontier.
C18_Witness ==
  /\ op = "insert" /\ err = MerkleTreeFull
  /\ Stored.count = MAX_LEAVES
  /\ Len(leaves) = MAX_LEAVES
  /\ arg = <<ZERO>>
  /\ Stored.branch[1] # ZERO
  /\ mem = <<Stored>>

\* C19: the counter of COUNT_BITS bits never wraps.  Whatever tree is
\* persisted, insert runs count += 1 only when count < 2^COUNT_BITS - 1: the
\* count in memory is then count + 1 as an integer, between 1 and
\* 2^COUNT_BITS - 1; a call rejected by one of the two checks leaves the
\* count in memory as it was; and the persisted count stays in range.
C19_CounterNeverWraps ==
  [][op' = "insert" =>
       LET old == Stored
           new == Contract_get_tree(storage')
           incremented == err' \notin {MerkleTreeFull, MerkleTreeInvalidVecSize}
       IN /\ incremented =>
               /\ old.count < 2^COUNT_BITS - 1
               /\ mem'[1].count = old.count + 1
               /\ mem'[1].count \in 1..(2^COUNT_BITS - 1)
          /\ ~incremented => mem'[1].count = old.count
          /\ old.count = 2^COUNT_BITS - 1 => ~incremented
          /\ new.count \in 0..(2^COUNT_BITS - 1)
          /\ new.count >= old.count
          /\ err' = Ok => new.count = old.count + 1]_allvars

\* The insert that takes count to the largest value of COUNT_BITS bits.
C19_Witness ==
  /\ op = "insert" /\ err = Ok
  /\ Stored.count = 2^COUNT_BITS - 1
  /\ mem = <<Stored>>
  /\ Len(leaves) > 0

====
